---- MODULE Spec2Model ----
(***************************************************************************)
(* Model of the Braintrust talent scraper (scraper-browser.js) and of the  *)
(* PUT /api/talent route (app/api/talent/route.ts) with the talents        *)
(* collection it writes.                                                   *)
(***************************************************************************)
EXTENDS Integers, Sequences, FiniteSets, TLC

\* ------------------------------------------------------------------ bounds
MaxClock == 1
MaxPage == 2
MaxItems == 2
MaxTerm == 2
MaxRequests == 3

\* ------------------------------------------------------- JavaScript values
\* A JSON/JavaScript value is a tagged record; n carries the number, the
\* index of a text, or the instant of a Date.
Absent == [t |-> "absent", n |-> 0]
Undef == [t |-> "undef", n |-> 0]
Null == [t |-> "null", n |-> 0]
NaN == [t |-> "nan", n |-> 0]
Num(k) == [t |-> "int", n |-> k]
\* The number k + 1/2, a number that is no integer.
Frac(k) == [t |-> "frac", n |-> k]
Str(k) == [t |-> "str", n |-> k]
NumStr(k) == [t |-> "numstr", n |-> k]
DateOf(k) == [t |-> "date", n |-> k]
\* The _id the store gives the n-th document it inserts.
ObjectId(n) == [t |-> "oid", n |-> n]

\* !v of JavaScript: Str(k) is a non-empty, non-numeric text ("abc"),
\* NumStr(k) the decimal text of k ("0" is a non-empty text, hence truthy).
Falsy(v) == \/ v.t \in {"absent", "undef", "null", "nan"}
            \/ (v.t = "int" /\ v.n = 0)

\* Number(v)
ToNumber(v) == CASE v.t = "int" -> v
                 [] v.t = "frac" -> v
                 [] v.t = "numstr" -> Num(v.n)
                 [] v.t = "null" -> Num(0)
                 [] v.t = "date" -> Num(v.n)
                 [] OTHER -> NaN

isNaN(v) == v.t = "nan"

\* ---------------------------------------------------------------- objects
SummaryFields == {"search_score", "matching_skills_percent", "personal_rank"}
Fields == {"_id", "id", "talent_id", "updatedAt", "name", "title"} \cup SummaryFields

\* An object is a total function over Fields; a key the object does not
\* have maps to Absent.
EmptyDoc == [k \in Fields |-> Absent]
Keys(d) == {k \in Fields : d[k] # Absent}

\* ------------------------------------------------------------ request body
ObjBody(d) == [kind |-> "obj", doc |-> d]
NullBody == [kind |-> "null", doc |-> EmptyDoc]
BadBody == [kind |-> "bad", doc |-> EmptyDoc]

\* ----------------------------------------------------- variables
\* The store and the PUT handler instances in flight.
VARIABLES collection, uniqueKeys, clock, hpc, hbody, hdata, hresp, hops
\* One run of scrapeTalents.
VARIABLES spc, currentPage, endPage, totalSaved, totalErrors, pageData, idx,
          exitReason
\* The runs of the script: which run it is, what the remote endpoints hold
\* when their data is fixed, and the collection as the first run left it.
VARIABLES run, remote, firstRun
\* The GET handler: where it is, its query parameters, its response.
VARIABLES gpc, greq, gresp
\* The viewer (Home): the search box, its debounced copy, the page, the role
\* filter, the role names on offer, what is displayed (talents, with total,
\* and totalPages), the loading flag, the debounce timer and the time since
\* the search box changed, and the talent requests issued so far.
VARIABLES searchText, debouncedSearch, pageNo, roleFilter, roles, talents,
          totalPages, loading, timerSet, sinceChange, requests

storeVars == <<collection, uniqueKeys, clock, hpc, hbody, hdata, hresp, hops>>
scrapeVars == <<spc, currentPage, endPage, totalSaved, totalErrors, pageData, idx,
                exitReason>>
runVars == <<run, remote, firstRun>>
getVars == <<gpc, greq, gresp>>
viewVars == <<searchText, debouncedSearch, pageNo, roleFilter, roles, talents,
              totalPages, loading, timerSet, sinceChange, requests>>
vars == <<storeVars, scrapeVars, runVars, getVars, viewVars>>

Handlers == {"h1", "h2"}

NoResp == [status |-> 0, via |-> "none", matched |-> 0, modified |-> 0, upserted |-> 0]

\* ---------------------------------------------------- the talents collection
\* collection.updateOne's filter {key: v}: the first document, in natural
\* order, whose key equals v; 0 when none does.
MatchIdx(coll, key, v) ==
  IF \E i \in 1..Len(coll) : coll[i][key] = v
  THEN CHOOSE i \in 1..Len(coll) :
         /\ coll[i][key] = v
         /\ \A j \in 1..Len(coll) : coll[j][key] = v => i <= j
  ELSE 0

\* Variant with a slip: the upsert inserts the filter's equality only, without
\* the $set.
InsertedDocFilterOnly(key, v, data, n) ==
  [EmptyDoc EXCEPT ![key] = v, !["_id"] = ObjectId(n)]

\* Variants of $set with a slip: $setOnInsert (an existing document is left as
\* it is), and a replacement of the whole document.
ApplySetOnInsert(doc, data) == doc
ApplyReplace(doc, data) == data

\* {$set: data}: every key of data takes data's value, the others stay.
ApplySet(doc, data) == [k \in Fields |-> IF data[k] # Absent THEN data[k] ELSE doc[k]]

\* The document an upsert inserts as the n-th of the collection: the filter's
\* equality, then $set; the store adds an _id when the document has none.
InsertedDoc(key, v, data, n) ==
  LET doc == ApplySet([EmptyDoc EXCEPT ![key] = v], data)
  IN IF doc["_id"] = Absent THEN [doc EXCEPT !["_id"] = ObjectId(n)] ELSE doc

\* $set of an _id other than the document's: the store refuses to change the
\* immutable field.
ChangesId(doc, data) == data["_id"] # Absent /\ data["_id"] # doc["_id"]

\* Variant with a slip: a collection without unique indexes.
NoUniqueIndex(coll) == TRUE

\* The unique indexes of the collection, the one on _id among them: no two
\* documents agree on an indexed key (a missing key is indexed as null).
UniqueOK(coll) ==
  \A key \in uniqueKeys : \A i, j \in 1..Len(coll) :
     i # j => coll[i][key] # coll[j][key]

\* ------------------------------------------------------------ PUT /api/talent
\* const talentId = Number(talentData.id)
TalentIdOf(body) == ToNumber(body.doc["id"])

\* if (!talentData || !talentData.id): the first 400
MissingId(body) == body.kind = "null" \/ Falsy(body.doc["id"])

\* Variant with a slip: only isNaN(talentId) is tested, 0 passes.
InvalidTalentIdNaNOnly(talentId) == isNaN(talentId)

\* if (!talentId || isNaN(talentId)): the second 400
InvalidTalentId(talentId) == Falsy(talentId) \/ isNaN(talentId)

\* Variant with a slip: nothing is deleted from dataToSave.
StripNothing(d) == d

\* Object.keys(dataToSave).forEach(...): delete every null/undefined value
\* except talent_id's.
StripNulls(d) ==
  [k \in Fields |-> IF k # "talent_id" /\ d[k] \in {Null, Undef} THEN Absent ELSE d[k]]

\* dataToSave: the spread payload with id, talent_id and updatedAt set, nulls
\* stripped, talent_id restored when falsy.
DataToSave(doc, talentId, now) ==
  LET spread == [doc EXCEPT !["id"] = talentId, !["talent_id"] = talentId,
                            !["updatedAt"] = DateOf(now)]
      stripped == StripNulls(spread)
  IN IF Falsy(stripped["talent_id"])
     THEN [stripped EXCEPT !["talent_id"] = talentId]
     ELSE stripped

\* The filter key and the upsert option of the primary updateOne.
PrimaryFilterKey == "talent_id"
PrimaryUpsert == TRUE

\* Variant with a slip: the update by id is tried whatever matched.
TryByIdAlways(matchedCount) == TRUE

\* if (result.matchedCount === 0): the update by id is tried
TryById(matchedCount) == matchedCount = 0

Resp(status, via, m, md, u) ==
  [status |-> status, via |-> via, matched |-> m, modified |-> md, upserted |-> u]

\* return NextResponse.json(...): the handler is over, dataToSave is gone.
Respond(h, r) ==
  /\ hpc' = [hpc EXCEPT ![h] = "done"]
  /\ hresp' = [hresp EXCEPT ![h] = r]
  /\ hdata' = [hdata EXCEPT ![h] = EmptyDoc]

\* new Date(): each read is later than the one before, up to MaxClock, the
\* last instant that is told apart.
Now(t) == /\ t = IF clock < MaxClock THEN clock + 1 ELSE clock
          /\ clock' = t

\* await request.json() and the two validations, then dataToSave.
PutValidate(h) ==
  /\ hpc[h] = "recv"
  /\ UNCHANGED <<collection, uniqueKeys, hbody, hops, scrapeVars, runVars, getVars, viewVars>>
  /\ IF hbody[h].kind = "bad"
     THEN \* request.json() throws: the catch, error.code is not 11000
          /\ Respond(h, Resp(500, "none", 0, 0, 0))
          /\ UNCHANGED clock
     ELSE IF MissingId(hbody[h]) \/ InvalidTalentId(TalentIdOf(hbody[h]))
     THEN /\ Respond(h, Resp(400, "none", 0, 0, 0))
          /\ UNCHANGED clock
     ELSE \E t \in 0..MaxClock :
            /\ Now(t)
            /\ hdata' = [hdata EXCEPT ![h] =
                            DataToSave(hbody[h].doc, TalentIdOf(hbody[h]), t)]
            /\ hpc' = [hpc EXCEPT ![h] = "primary"]
            /\ UNCHANGED hresp

\* catch (error) with error.code === 11000: dataToSave is built again and the
\* update by talent_id is next.
EnterFallback(h) ==
  \E t \in 0..MaxClock :
     /\ Now(t)
     /\ hdata' = [hdata EXCEPT ![h] =
                     DataToSave(hbody[h].doc, TalentIdOf(hbody[h]), t)]
     /\ hpc' = [hpc EXCEPT ![h] = "fbTalentId"]
     /\ UNCHANGED <<collection, hresp>>

ModifiedCount(old, new) == IF old = new THEN 0 ELSE 1

\* collection.updateOne({key: v}, {$set: data}) on an existing document: the
\* result, or the error of the store: 66 when the update would change _id,
\* the duplicate key error 11000 when it breaks a unique index.
UpdateOne(coll, key, v, data) ==
  LET i == MatchIdx(coll, key, v)
  IN IF i = 0
     THEN [err |-> "none", coll |-> coll, matched |-> 0, modified |-> 0]
     ELSE LET new == [coll EXCEPT ![i] = ApplySet(@, data)]
          IN IF ChangesId(coll[i], data)
             THEN [err |-> "E66", coll |-> coll, matched |-> 0, modified |-> 0]
             ELSE IF UniqueOK(new)
             THEN [err |-> "none", coll |-> new, matched |-> 1,
                   modified |-> ModifiedCount(coll, new)]
             ELSE [err |-> "E11000", coll |-> coll, matched |-> 0, modified |-> 0]

\* if (error.code === 11000 && talentData)
IsDuplicateKey(err, body) == err = "E11000" /\ body.kind = "obj"

\* The outer catch: the fallback for a duplicate key, the 500 otherwise.
Catch(h, err) ==
  IF IsDuplicateKey(err, hbody[h])
  THEN EnterFallback(h)
  ELSE /\ Respond(h, Resp(500, "none", 0, 0, 0))
       /\ UNCHANGED <<collection, clock>>

\* collection.updateOne({talent_id}, {$set}, {upsert: true}), its match phase:
\* an existing document is updated in place; none found leaves the insert.
PutPrimary(h) ==
  /\ hpc[h] = "primary"
  /\ hops' = [hops EXCEPT ![h] = Append(@, "upsert")]
  /\ UNCHANGED <<uniqueKeys, hbody, scrapeVars, runVars, getVars, viewVars>>
  /\ LET r == UpdateOne(collection, PrimaryFilterKey, hdata[h]["talent_id"], hdata[h])
     IN \/ \* the store fails with an error other than 11000
           Catch(h, "other")
        \/ /\ r.err # "none"
           /\ Catch(h, r.err)
        \/ /\ r.err = "none"
           /\ r.matched = 1
           /\ collection' = r.coll
           /\ Respond(h, Resp(200, "primary", 1, r.modified, 0))
           /\ UNCHANGED clock
        \/ /\ r.err = "none"
           /\ r.matched = 0
           /\ IF PrimaryUpsert
              THEN /\ hpc' = [hpc EXCEPT ![h] = "insert"]
                   /\ UNCHANGED <<collection, clock, hdata, hresp>>
              ELSE /\ Respond(h, Resp(200, "primary", 0, 0, 0))
                   /\ UNCHANGED <<collection, clock>>

\* The insert of the upsert: the unique indexes decide between the new
\* document and the duplicate key error 11000.
PutInsert(h) ==
  /\ hpc[h] = "insert"
  /\ UNCHANGED <<uniqueKeys, hbody, hops, scrapeVars, runVars, getVars, viewVars>>
  /\ LET new == Append(collection,
                       InsertedDoc(PrimaryFilterKey, hdata[h]["talent_id"], hdata[h],
                                   Len(collection) + 1))
     IN IF UniqueOK(new)
        THEN /\ collection' = new
             /\ Respond(h, Resp(200, "primary", 0, 0, 1))
             /\ UNCHANGED clock
        ELSE Catch(h, "E11000")

\* catch (retryError): logged, then the 500 after the fallback block.
RetryFailed(h) ==
  /\ Respond(h, Resp(500, "fallback", 0, 0, 0))
  /\ UNCHANGED collection

\* let result = await collection.updateOne({talent_id}, {$set}); a result
\* that matched is the answer, one that matched nothing leaves the update by id.
PutFallbackTalentId(h) ==
  /\ hpc[h] = "fbTalentId"
  /\ hops' = [hops EXCEPT ![h] = Append(@, "updateByTalentId")]
  /\ UNCHANGED <<uniqueKeys, clock, hbody, scrapeVars, runVars, getVars, viewVars>>
  /\ LET r == UpdateOne(collection, "talent_id", hdata[h]["talent_id"], hdata[h])
     IN \/ \* the update throws, for a duplicate key or any other store error
           RetryFailed(h)
        \/ /\ r.err = "none"
           /\ collection' = r.coll
           /\ IF TryById(r.matched)
              THEN /\ hpc' = [hpc EXCEPT ![h] = "fbId"]
                   /\ UNCHANGED <<hresp, hdata>>
              ELSE Respond(h, Resp(200, "fallback", r.matched, r.modified, 0))

\* result = await collection.updateOne({id}, {$set}), then the 200
PutFallbackId(h) ==
  /\ hpc[h] = "fbId"
  /\ hops' = [hops EXCEPT ![h] = Append(@, "updateById")]
  /\ UNCHANGED <<uniqueKeys, clock, hbody, scrapeVars, runVars, getVars, viewVars>>
  /\ LET r == UpdateOne(collection, "id", hdata[h]["talent_id"], hdata[h])
     IN \/ \* the update throws, for a duplicate key or any other store error
           RetryFailed(h)
        \/ /\ r.err = "none"
           /\ collection' = r.coll
           /\ Respond(h, Resp(200, "fallback", r.matched, r.modified, 0))

PutStep(h) ==
  \/ PutValidate(h)
  \/ PutPrimary(h)
  \/ PutInsert(h)
  \/ PutFallbackTalentId(h)
  \/ PutFallbackId(h)

\* -------------------------------------------------- clients of PUT /api/talent
\* The payloads clients send: the valid ones (a number id with a null name, the
\* same talent with its id as text, an id that is no integer (1.5), and two
\* talents whose payloads carry the same _id), and one for each way an id is
\* unusable: missing, null, 0, a text that is no number ("abc"), "0".
ValidPayloads ==
  {[EmptyDoc EXCEPT !["id"] = Num(1), !["name"] = Null, !["title"] = Str(2)],
   [EmptyDoc EXCEPT !["id"] = NumStr(1), !["name"] = Str(1)],
   [EmptyDoc EXCEPT !["id"] = Frac(1), !["name"] = Str(1)],
   [EmptyDoc EXCEPT !["id"] = Num(1), !["_id"] = Str(1)],
   [EmptyDoc EXCEPT !["id"] = Num(2), !["_id"] = Str(1), !["name"] = Str(1)]}

InvalidIds == {Absent, Null, Num(0), Str(1), NumStr(0)}

InvalidPayloads == {[EmptyDoc EXCEPT !["id"] = i, !["title"] = Str(2)] : i \in InvalidIds}

Bodies == {NullBody, BadBody} \cup {ObjBody(d) : d \in ValidPayloads \cup InvalidPayloads}

\* A client sends PUT /api/talent with some body.
ClientSend(h, body) ==
  /\ hpc[h] = "idle"
  /\ hpc' = [hpc EXCEPT ![h] = "recv"]
  /\ hbody' = [hbody EXCEPT ![h] = body]
  /\ UNCHANGED <<collection, uniqueKeys, clock, hdata, hresp, hops, scrapeVars,
                 runVars, getVars, viewVars>>

\* The request is over: nothing of it is kept.
Release(h) ==
  /\ hpc' = [hpc EXCEPT ![h] = "idle"]
  /\ hbody' = [hbody EXCEPT ![h] = NullBody]
  /\ hdata' = [hdata EXCEPT ![h] = EmptyDoc]
  /\ hresp' = [hresp EXCEPT ![h] = NoResp]
  /\ hops' = [hops EXCEPT ![h] = <<>>]

\* The client takes the response; the handler instance is over.
ClientReceive(h) ==
  /\ hpc[h] = "done"
  /\ Release(h)
  /\ UNCHANGED <<collection, uniqueKeys, clock, scrapeVars, runVars, getVars, viewVars>>

\* ------------------------------------------------------------- scrapeTalents
\* What the remote list endpoint lists: a summary with the three rank and
\* score fields, and one that lacks search_score and personal_rank.
Summary1 ==
  [EmptyDoc EXCEPT !["id"] = Num(1), !["search_score"] = Num(9),
                   !["matching_skills_percent"] = Num(50),
                   !["personal_rank"] = Num(3)]
Summary2 ==
  [EmptyDoc EXCEPT !["id"] = Num(2), !["matching_skills_percent"] = Num(50)]

\* The results of a page with k summaries: the two summaries in turn (a third
\* item lists the first talent again).
ResultList(k) == [i \in 1..k |-> IF i % 2 = 1 THEN Summary1 ELSE Summary2]

\* What the remote detail endpoint may answer with status 200.
Details ==
  {[EmptyDoc EXCEPT !["id"] = Num(1), !["name"] = Str(1), !["title"] = Str(2),
                    !["search_score"] = Num(7)],
   [EmptyDoc EXCEPT !["id"] = Num(2), !["name"] = Null, !["title"] = Str(2)],
   [EmptyDoc EXCEPT !["name"] = Str(1)]}

\* The value fetchTalentsPage returns: null, or the response body, whose
\* results may be missing.
NoPage == [present |-> FALSE, hasResults |-> FALSE, results |-> <<>>, next |-> FALSE]
PageBodies ==
  {[present |-> TRUE, hasResults |-> FALSE, results |-> <<>>, next |-> n] : n \in BOOLEAN}
  \cup {[present |-> TRUE, hasResults |-> TRUE, results |-> ResultList(k), next |-> n] :
          k \in 0..MaxItems, n \in BOOLEAN}

\* const START_PAGE = 1
StartPage == 1

\* Variant with a slip: endPage is excluded.
LoopContinuesStrict(page, end) == page < end

\* while (currentPage <= endPage)
LoopContinues(page, end) == page <= end

\* Variant with a slip: only the results field is looked at, a null page
\* passes as a page without results and without next.
NoDataResultsOnly(pd) == pd.present /\ ~pd.hasResults

\* Variant with a slip: a page with an empty results array counts as no data.
NoDataOrEmpty(pd) == ~pd.present \/ ~pd.hasResults \/ pd.results = <<>>

\* if (!pageData || !pageData.results)
NoData(pd) == ~pd.present \/ ~pd.hasResults

\* Variant with a slip: the next field is not looked at.
NoNextIgnored(pd) == FALSE

\* if (!pageData.next)
NoNext(pd) == ~pd.next

\* response.status === 200 || response.status === 201
SaveSucceeded(status) == status = 200 \/ status = 201

\* Variant with a slip: the summary's keys come first and the detail is spread
\* over them, so the detail wins where it has the key.
MergeDetailWins(detail, summary) ==
  [k \in Fields |-> IF k \in SummaryFields /\ detail[k] = Absent
                    THEN (IF summary[k] = Absent THEN Undef ELSE summary[k])
                    ELSE detail[k]]

\* Variant with a slip: the record is filed under the id of the summary.
MergeSummaryId(detail, summary) ==
  [k \in Fields |-> IF k \in SummaryFields
                    THEN (IF summary[k] = Absent THEN Undef ELSE summary[k])
                    ELSE IF k = "id" THEN summary[k]
                    ELSE detail[k]]

\* fullTalentData: the detail spread, then the three keys of the summary (a
\* key the summary lacks is set to undefined).
Merge(detail, summary) ==
  [k \in Fields |-> IF k \in SummaryFields
                    THEN (IF summary[k] = Absent THEN Undef ELSE summary[k])
                    ELSE detail[k]]

\* JSON.stringify(data): a key whose value is undefined is left out.
Stringify(d) == [k \in Fields |-> IF d[k] = Undef THEN Absent ELSE d[k]]

\* The top of the while loop: the list fetch of currentPage is issued, or the
\* loop ends because the cursor passed endPage.
LoopTop(page) ==
  IF LoopContinues(page, endPage)
  THEN /\ spc' = "list"
       /\ exitReason' = exitReason
  ELSE /\ spc' = "done"
       /\ exitReason' = "endPage"

\* Variant with a slip: the cursor advances and the next list fetch goes out
\* without the page delay.
AfterItemsNoDelay(pd) ==
  IF NoNext(pd)
  THEN /\ spc' = "done"
       /\ exitReason' = "noNext"
       /\ UNCHANGED currentPage
  ELSE /\ currentPage' = currentPage + 1
       /\ LoopTop(currentPage + 1)

\* Variant with a slip: the cursor is not advanced before the page delay.
AfterItemsStay(pd) ==
  IF NoNext(pd)
  THEN /\ spc' = "done"
       /\ exitReason' = "noNext"
       /\ UNCHANGED currentPage
  ELSE /\ spc' = "pageDelay"
       /\ UNCHANGED <<currentPage, exitReason>>

\* After the for loop: the run ends without a next page, else the cursor
\* advances and the page delay starts.
AfterItems(pd) ==
  IF NoNext(pd)
  THEN /\ spc' = "done"
       /\ exitReason' = "noNext"
       /\ UNCHANGED currentPage
  ELSE /\ spc' = "pageDelay"
       /\ currentPage' = currentPage + 1
       /\ UNCHANGED exitReason

\* scrapeTalents(startPage, endPage) is called.
Invoke(startPage, end) ==
  /\ spc = "idle"
  /\ currentPage' = startPage
  /\ endPage' = end
  /\ totalSaved' = 0
  /\ totalErrors' = 0
  /\ IF LoopContinues(startPage, end)
     THEN spc' = "list" /\ exitReason' = "none"
     ELSE spc' = "done" /\ exitReason' = "endPage"
  /\ UNCHANGED <<pageData, idx, storeVars, runVars, getVars, viewVars>>

\* await fetchTalentsPage(currentPage) returns: the body of a 200 answer, or
\* null after another status or a thrown request.
ListReturns(pd) ==
  /\ spc = "list"
  /\ pageData' = pd
  /\ UNCHANGED <<runVars, getVars, viewVars, endPage, totalSaved, totalErrors, storeVars>>
  /\ IF NoData(pd)
     THEN /\ spc' = "done"
          /\ exitReason' = "noData"
          /\ UNCHANGED <<currentPage, idx>>
     ELSE IF pd.results = <<>>
     THEN /\ AfterItems(pd)
          /\ UNCHANGED idx
     ELSE /\ idx' = 1
          /\ spc' = "detail"
          /\ UNCHANGED <<currentPage, exitReason>>

\* Variant with a slip: a detail fetch that returns null ends the run.
DetailFailsStops ==
  /\ spc = "detail"
  /\ totalErrors' = totalErrors + 1
  /\ spc' = "done"
  /\ UNCHANGED <<runVars, getVars, viewVars,
                 currentPage, endPage, totalSaved, pageData, idx, exitReason,
                 storeVars>>

\* await fetchTalentDetails(talent.id) returns null: the item is an error.
DetailFails ==
  /\ spc = "detail"
  /\ totalErrors' = totalErrors + 1
  /\ spc' = "itemDelay"
  /\ UNCHANGED <<runVars, getVars, viewVars,
                 currentPage, endPage, totalSaved, pageData, idx, exitReason,
                 storeVars>>

\* Variant with a slip: saveTalentToMongoDB is called without await, the loop
\* goes on while the PUT is out.
DetailReturnsNoAwait(detail) ==
  /\ spc = "detail"
  /\ spc' = "itemDelay"
  /\ hpc' = [hpc EXCEPT !["h1"] = "recv"]
  /\ hbody' = [hbody EXCEPT !["h1"] =
                 ObjBody(Stringify(Merge(detail, pageData.results[idx])))]
  /\ UNCHANGED <<runVars, getVars, viewVars,
                 currentPage, endPage, totalSaved, totalErrors, pageData, idx,
                 exitReason, collection, uniqueKeys, clock, hdata, hresp, hops>>

\* await fetchTalentDetails(talent.id) returns a record: it is merged with the
\* summary and the PUT is sent.
DetailReturns(detail) ==
  /\ spc = "detail"
  /\ spc' = "save"
  /\ hpc' = [hpc EXCEPT !["h1"] = "recv"]
  /\ hbody' = [hbody EXCEPT !["h1"] =
                 ObjBody(Stringify(Merge(detail, pageData.results[idx])))]
  /\ UNCHANGED <<runVars, getVars, viewVars,
                 currentPage, endPage, totalSaved, totalErrors, pageData, idx,
                 exitReason, collection, uniqueKeys, clock, hdata, hresp, hops>>

\* Variant with a slip: every item is counted as an error.
CountSaveErrorsOnly(saved) ==
  totalErrors' = totalErrors + 1 /\ UNCHANGED totalSaved

\* if (saved) totalSaved++ else totalErrors++
CountSave(saved) ==
  IF saved
  THEN totalSaved' = totalSaved + 1 /\ UNCHANGED totalErrors
  ELSE totalErrors' = totalErrors + 1 /\ UNCHANGED totalSaved

\* await saveTalentToMongoDB(fullTalentData) returns with a response.
SaveReturns ==
  /\ spc = "save"
  /\ hpc["h1"] = "done"
  /\ CountSave(SaveSucceeded(hresp["h1"].status))
  /\ spc' = "itemDelay"
  /\ Release("h1")
  /\ UNCHANGED <<runVars, getVars, viewVars,
                 currentPage, endPage, pageData, idx, exitReason, collection,
                 uniqueKeys, clock>>

\* Variant with a slip: saveTalentToMongoDB without its try/catch, the error
\* of makeRequest leaves scrapeTalents.
SaveThrowsUncaught ==
  /\ spc = "save"
  /\ hpc["h1"] \in {"recv", "done"}
  /\ spc' = "thrown"
  /\ Release("h1")
  /\ UNCHANGED <<runVars, getVars, viewVars,
                 currentPage, endPage, totalSaved, totalErrors, pageData, idx,
                 exitReason, collection, uniqueKeys, clock>>

\* Variant with a slip: a save whose answer is lost is sent again.
SaveThrowsRetry ==
  /\ spc = "save"
  /\ hpc["h1"] = "done"
  /\ hpc' = [hpc EXCEPT !["h1"] = "recv"]
  /\ hresp' = [hresp EXCEPT !["h1"] = NoResp]
  /\ hops' = [hops EXCEPT !["h1"] = <<>>]
  /\ UNCHANGED <<runVars, getVars, viewVars,
                 spc, currentPage, endPage, totalSaved, totalErrors, pageData,
                 idx, exitReason, collection, uniqueKeys, clock, hbody, hdata>>

\* makeRequest throws in saveTalentToMongoDB (the request or its answer is
\* lost): the catch returns false.
SaveThrows ==
  /\ spc = "save"
  /\ hpc["h1"] \in {"recv", "done"}
  /\ CountSave(FALSE)
  /\ spc' = "itemDelay"
  /\ Release("h1")
  /\ UNCHANGED <<runVars, getVars, viewVars,
                 currentPage, endPage, pageData, idx, exitReason, collection,
                 uniqueKeys, clock>>

\* await delay(DELAY_MS) after an item: the next item, or the end of the page.
ItemDelayEnds ==
  /\ spc = "itemDelay"
  /\ UNCHANGED <<runVars, getVars, viewVars,
                 endPage, totalSaved, totalErrors, pageData, storeVars>>
  /\ IF idx < Len(pageData.results)
     THEN /\ idx' = idx + 1
          /\ spc' = "detail"
          /\ UNCHANGED <<currentPage, exitReason>>
     ELSE /\ AfterItems(pageData)
          /\ UNCHANGED idx

\* await delay(DELAY_MS) after a page: back to the top of the loop.
PageDelayEnds ==
  /\ spc = "pageDelay"
  /\ LoopTop(currentPage)
  /\ UNCHANGED <<runVars, getVars, viewVars,
                 currentPage, endPage, totalSaved, totalErrors, pageData, idx,
                 storeVars>>

ScrapeStep ==
  \/ \E e \in 0..MaxPage : Invoke(StartPage, e)
  \/ \E pd \in PageBodies \cup {NoPage} : ListReturns(pd)
  \/ DetailFails
  \/ \E d \in Details : DetailReturns(d)
  \/ SaveReturns
  \/ SaveThrows
  \/ ItemDelayEnds
  \/ PageDelayEnds

\* ----------------------------------------------------------- GET /api/talent
\* A text is a sequence of characters; a text value of a document is Text(s),
\* and Absent stands for a field the document lacks.
Text(s) == [t |-> "text", n |-> s]
\* Options 'i': letters compare without case.
Lower(c) == IF c = "B" THEN "b" ELSE IF c = "A" THEN "a" ELSE c

\* The search terms a client may send: up to MaxTerm characters, letters and
\* the characters '.', '*' and '('.
TermChars == {"a", "B", ".", "*", "("}
Terms == UNION {[1..n -> TermChars] : n \in 1..MaxTerm}

\* The fields the $or of the query names, and the fields of a document the
\* handler reads.
SearchFields ==
  {"user.first_name", "user.last_name", "user.public_name", "user.title",
   "user.introduction_headline", "location"}
GetFields == SearchFields \cup {"id", "personal_rank", "role.name"}

\* The store compiles {$regex: search}: a '(' that is never closed and a '*'
\* with nothing to repeat are errors, and the query throws.
ValidRegex(p) ==
  \A i \in 1..Len(p) :
     /\ p[i] # "("
     /\ p[i] = "*" => (i > 1 /\ p[i - 1] # "*")

\* One character of the pattern against one of the text: '.' matches any
\* character, another character matches itself without case.
CharMatch(pc, tc) == pc = "." \/ Lower(pc) = Lower(tc)

\* The pattern from its i-th character on matches the text at position j: a
\* character followed by '*' matches zero or more times.
RECURSIVE MatchAt(_, _, _, _)
MatchAt(p, i, t, j) ==
  IF i > Len(p) THEN TRUE
  ELSE IF i < Len(p) /\ p[i + 1] = "*"
  THEN \/ MatchAt(p, i + 2, t, j)
       \/ j <= Len(t) /\ CharMatch(p[i], t[j]) /\ MatchAt(p, i, t, j + 1)
  ELSE j <= Len(t) /\ CharMatch(p[i], t[j]) /\ MatchAt(p, i + 1, t, j + 1)

\* {field: {$regex: p, $options: 'i'}}: the pattern, as it is, matches
\* somewhere in the text.
RegexFound(p, t) == \E j \in 1..(Len(t) + 1) : MatchAt(p, 1, t, j)

\* The query built from search and role: the $or over the six fields when
\* search is not empty, the role name when role is not empty.
QueryMatches(doc, search, role) ==
  /\ search # <<>> =>
        \E f \in SearchFields : doc[f].t = "text" /\ RegexFound(search, doc[f].n)
  /\ role.t # "absent" => doc["role.name"] = role

\* .sort({personal_rank: -1, id: 1}): the higher rank first, a document without
\* rank after those with one, then the lower id first.
RankKey(doc) == IF doc["personal_rank"].t = "int" THEN doc["personal_rank"].n + 1 ELSE 0
Before(a, b) ==
  \/ RankKey(a) > RankKey(b)
  \/ RankKey(a) = RankKey(b) /\ a["id"].n < b["id"].n
Sorted(coll, S) ==
  LET order == CHOOSE s \in [1..Cardinality(S) -> S] :
                 \A i, j \in 1..Cardinality(S) : i < j => Before(coll[s[i]], coll[s[j]])
  IN [i \in 1..Cardinality(S) |-> coll[order[i]]]

\* parseInt(searchParams.get('limit') || '20')
DefaultLimit == 20

NoReq == [page |-> 0, limit |-> 0, search |-> <<>>, role |-> Absent]
NoGetResp == [status |-> 0, talents |-> <<>>, total |-> 0, totalPages |-> 0, roles |-> {}]

\* GET(request): the query is built, counted, found, sorted, skipped and
\* limited, the role names are collected, and the answer is 200; an error of
\* the store is caught and answered with 500.
Get(page, limit, search, role) ==
  /\ gpc = "idle"
  /\ gpc' = "done"
  /\ greq' = [page |-> page, limit |-> limit, search |-> search, role |-> role]
  /\ IF search # <<>> /\ ~ValidRegex(search)
     THEN gresp' = [NoGetResp EXCEPT !.status = 500]
     ELSE LET hits == {i \in 1..Len(collection) :
                         QueryMatches(collection[i], search, role)}
              found == Sorted(collection, hits)
              skip == (page - 1) * limit
              to == IF skip + limit < Len(found) THEN skip + limit ELSE Len(found)
          IN gresp' = [status |-> 200,
                        talents |-> SubSeq(found, skip + 1, to),
                        total |-> Len(found),
                        totalPages |-> (Len(found) + limit - 1) \div limit,
                        roles |-> {collection[i]["role.name"] : i \in 1..Len(collection)}
                                    \ {Absent}]
  /\ UNCHANGED <<storeVars, scrapeVars, runVars, viewVars>>

\* The response is delivered.
GetReceive ==
  /\ gpc = "done"
  /\ gpc' = "idle"
  /\ greq' = NoReq
  /\ gresp' = NoGetResp
  /\ UNCHANGED <<storeVars, scrapeVars, runVars, viewVars>>

\* The documents GET finds in the collection, with the fields it reads: texts
\* with letters of both cases, with a '.' and with a '('.
GetDoc(id, rank, role, field, text) ==
  [k \in GetFields |->
     IF k = "id" THEN Num(id)
     ELSE IF k = "personal_rank" THEN rank
     ELSE IF k = "role.name" THEN role
     ELSE IF k = field THEN Text(text)
     ELSE Absent]
GetDocs ==
  {GetDoc(1, Num(3), Str(1), "user.first_name", <<"a", "B">>),
   GetDoc(2, Num(3), Absent, "user.title", <<"b", ".", "a">>),
   GetDoc(3, Absent, Absent, "location", <<"(", "a">>),
   GetDoc(4, Num(5), Str(1), "user.introduction_headline", <<"B", "b">>)}
GetStores ==
  {[coll |-> c, keys |-> {"_id", "talent_id"}] :
     c \in {s \in UNION {[1..n -> GetDocs] : n \in 0..MaxItems} :
              \A i, j \in 1..Len(s) : i # j => s[i]["id"] # s[j]["id"]}}

\* --------------------------------------------------------------- the viewer
\* setTimeout(..., 500)
DebounceMs == 500

\* What the user may type into the search box, and the role names the
\* route reports.
SearchTexts == {"", "a", "ab"}
RoleNames == {"dev"}

\* A talent request: its query parameters, and whether it is out, answered,
\* or has failed (fetch or response.json() threw).
Request(p, s, r) == [page |-> p, search |-> s, role |-> r, status |-> "out"]

\* What a response body gives the viewer: the error body of a 500 (no
\* talents, no pagination, no filters), or talents (none or some), totalPages
\* and the role names.
ErrorBody == [ok |-> FALSE, some |-> FALSE, totalPages |-> 0, roles |-> {}]
ResponseBodies ==
  {ErrorBody, [ok |-> TRUE, some |-> FALSE, totalPages |-> 0, roles |-> RoleNames]}
  \cup {[ok |-> TRUE, some |-> TRUE, totalPages |-> n, roles |-> RoleNames] :
          n \in 1..MaxPage}

\* The fetch effect, run after a render in which page, debouncedSearch or
\* roleFilter has changed: setLoading(true) and the request goes out.
FetchEffect(p, s, r) ==
  IF <<p, s, r>> # <<pageNo, debouncedSearch, roleFilter>>
  THEN /\ Len(requests) < MaxRequests
       /\ requests' = Append(requests, Request(p, s, r))
       /\ loading' = TRUE
  ELSE UNCHANGED <<requests, loading>>

\* Variant with a slip: the timer runs out at once.
TimerDueAtOnce(since) == TRUE

\* The timer set by the debounce effect runs out 500 ms after it was set.
TimerDue(since) == since >= DebounceMs

\* onChange of the search box: setSearch; the debounce effect clears the
\* timer of the previous text and sets one for the new text.
Type(s) ==
  /\ s # searchText
  /\ searchText' = s
  /\ timerSet' = TRUE
  /\ sinceChange' = 0
  /\ UNCHANGED <<debouncedSearch, pageNo, roleFilter, roles, talents, totalPages,
                 loading, requests>>
  /\ UNCHANGED <<storeVars, scrapeVars, runVars, getVars>>

\* Time passes while the timer is set, half the debounce interval at a time.
Tick ==
  /\ timerSet
  /\ ~TimerDue(sinceChange)
  /\ sinceChange' = sinceChange + DebounceMs \div 2
  /\ UNCHANGED <<searchText, debouncedSearch, pageNo, roleFilter, roles, talents,
                 totalPages, loading, timerSet, requests>>
  /\ UNCHANGED <<storeVars, scrapeVars, runVars, getVars>>

\* The timer callback: setDebouncedSearch(search), setPage(1), then the fetch
\* effect when one of the two has changed.
TimerFires ==
  /\ timerSet
  /\ TimerDue(sinceChange)
  /\ timerSet' = FALSE
  /\ debouncedSearch' = searchText
  /\ pageNo' = 1
  /\ FetchEffect(1, searchText, roleFilter)
  /\ UNCHANGED <<searchText, roleFilter, roles, talents, totalPages, sinceChange>>
  /\ UNCHANGED <<storeVars, scrapeVars, runVars, getVars>>

\* onChange of the role select: setRoleFilter, setPage(1), then the fetch
\* effect.
SelectRole(r) ==
  /\ r \in {""} \cup roles
  /\ r # roleFilter
  /\ roleFilter' = r
  /\ pageNo' = 1
  /\ FetchEffect(1, debouncedSearch, r)
  /\ UNCHANGED <<searchText, debouncedSearch, roles, talents, totalPages, timerSet,
                 sinceChange>>
  /\ UNCHANGED <<storeVars, scrapeVars, runVars, getVars>>

\* The pagination is rendered when loading is off and talents are displayed.
PaginationShown == ~loading /\ talents.some

\* Previous: setPage(p => Math.max(1, p - 1)), disabled on page 1.
PreviousPage ==
  /\ PaginationShown
  /\ pageNo # 1
  /\ pageNo' = (IF pageNo - 1 > 1 THEN pageNo - 1 ELSE 1)
  /\ FetchEffect(pageNo', debouncedSearch, roleFilter)
  /\ UNCHANGED <<searchText, debouncedSearch, roleFilter, roles, talents, totalPages,
                 timerSet, sinceChange>>
  /\ UNCHANGED <<storeVars, scrapeVars, runVars, getVars>>

\* Next: setPage(p => Math.min(totalPages, p + 1)), disabled on the last page.
NextPage ==
  /\ PaginationShown
  /\ pageNo # totalPages
  /\ pageNo' = (IF pageNo + 1 < totalPages THEN pageNo + 1 ELSE totalPages)
  /\ FetchEffect(pageNo', debouncedSearch, roleFilter)
  /\ UNCHANGED <<searchText, debouncedSearch, roleFilter, roles, talents, totalPages,
                 timerSet, sinceChange>>
  /\ UNCHANGED <<storeVars, scrapeVars, runVars, getVars>>

\* The response of request i has come in and response.json() has returned:
\* setTalents(data.talents || []), setTotalPages(... || 1), setTotal,
\* setRoles when the body has filters.roles, and setLoading(false).
Answered(i, body) ==
  /\ i \in 1..Len(requests)
  /\ requests[i].status = "out"
  /\ requests' = [requests EXCEPT ![i].status = "answered"]
  /\ talents' = [req |-> i, some |-> body.some]
  /\ totalPages' = (IF body.totalPages = 0 THEN 1 ELSE body.totalPages)
  /\ roles' = (IF body.ok THEN body.roles ELSE roles)
  /\ loading' = FALSE
  /\ UNCHANGED <<searchText, debouncedSearch, pageNo, roleFilter, timerSet, sinceChange>>
  /\ UNCHANGED <<storeVars, scrapeVars, runVars, getVars>>

\* fetch or response.json() of request i throws: the catch logs, finally
\* setLoading(false).
FetchThrows(i) ==
  /\ i \in 1..Len(requests)
  /\ requests[i].status = "out"
  /\ requests' = [requests EXCEPT ![i].status = "failed"]
  /\ loading' = FALSE
  /\ UNCHANGED <<searchText, debouncedSearch, pageNo, roleFilter, roles, talents,
                 totalPages, timerSet, sinceChange>>
  /\ UNCHANGED <<storeVars, scrapeVars, runVars, getVars>>

\* Home after its first render: the state of the useState calls, the timer of
\* the debounce effect set, and the first request of the fetch effect out.
Mounted ==
  /\ searchText = ""
  /\ debouncedSearch = ""
  /\ pageNo = 1
  /\ roleFilter = ""
  /\ roles = {}
  /\ talents = [req |-> 0, some |-> FALSE]
  /\ totalPages = 1
  /\ loading = TRUE
  /\ timerSet = TRUE
  /\ sinceChange = 0
  /\ requests = <<Request(1, "", "")>>

\* ------------------------------------------------------------ specifications
\* A document of the talents collection before the run.
StoredDoc(tid, id, name) ==
  [EmptyDoc EXCEPT !["_id"] = ObjectId(1), !["talent_id"] = tid, !["id"] = id,
                   !["name"] = name, !["updatedAt"] = DateOf(0)]

\* The stores a run may start from. A store of today has the unique indexes
\* on _id and talent_id and is empty or holds a talent saved earlier (id and
\* talent_id equal); a store that goes back to the time before talent_id also
\* has the unique index on id and holds a document with an id only.
InitStores ==
  {[coll |-> <<>>, keys |-> {"_id", "talent_id"}],
   [coll |-> <<StoredDoc(Num(1), Num(1), Str(3))>>, keys |-> {"_id", "talent_id"}],
   [coll |-> <<StoredDoc(Absent, Num(1), Str(3))>>, keys |-> {"_id", "talent_id", "id"}]}

\* What the remote endpoints hold while their data does not change: pages
\* 1..last with the same `items` summaries each, a next link on every page
\* before the last (and on the last when `more`; the page after it then
\* fails), and for each talent id its detail record, or none (the detail
\* fetch of that id returns null every time).
DetailAnswers ==
  {[present |-> FALSE, doc |-> EmptyDoc]}
  \cup {[present |-> TRUE, doc |-> d] : d \in Details}
Remotes ==
  [items : 0..MaxItems, last : 1..MaxPage, more : BOOLEAN,
   details : [1..2 -> DetailAnswers]]
\* Remote data that is not fixed: any answer may come at any time.
AnyRemote ==
  [items |-> 0, last |-> 0, more |-> FALSE,
   details |-> [i \in 1..2 |-> [present |-> FALSE, doc |-> EmptyDoc]]]
\* The answer of the list endpoint for page p.
PageOf(r, p) ==
  IF p <= r.last
  THEN [present |-> TRUE, hasResults |-> TRUE, results |-> ResultList(r.items),
        next |-> (p < r.last \/ r.more)]
  ELSE NoPage

InitWith(r, stores) ==
  /\ run = 1
  /\ remote = r
  /\ firstRun = <<>>
  /\ gpc = "idle"
  /\ greq = NoReq
  /\ gresp = NoGetResp
  /\ Mounted
  /\ \E st \in stores : collection = st.coll /\ uniqueKeys = st.keys
  /\ clock = 0
  /\ hpc = [h \in Handlers |-> "idle"]
  /\ hbody = [h \in Handlers |-> NullBody]
  /\ hdata = [h \in Handlers |-> EmptyDoc]
  /\ hresp = [h \in Handlers |-> NoResp]
  /\ hops = [h \in Handlers |-> <<>>]
  /\ spc = "idle"
  /\ currentPage = 0
  /\ endPage = 0
  /\ totalSaved = 0
  /\ totalErrors = 0
  /\ pageData = NoPage
  /\ idx = 0
  /\ exitReason = "none"

Init == InitWith(AnyRemote, InitStores)

\* One run of the scraper against the route and the store.
Next == ScrapeStep \/ PutStep("h1")

Spec == Init /\ [][Next]_vars

\* Clients of the route, two requests in flight at most.
NextStore ==
  \E h \in Handlers :
     \/ \E b \in Bodies : ClientSend(h, b)
     \/ ClientReceive(h)
     \/ PutStep(h)

SpecStore == Init /\ [][NextStore]_vars

\* Every request returns or fails, every timer fires, every handler step is
\* taken: a step that can be taken is taken in the end.
FairSpec == Spec /\ WF_vars(Next)

\* The script is run twice over the same page range while the remote data
\* stays as it is: every list and detail fetch is answered from `remote`, no
\* request is lost on the way, and the store is up (updateOne throws only the
\* errors its data calls for).
StoreOutage(h) ==
  /\ hresp'[h].status = 500
  /\ \/ /\ hpc[h] = "primary"
        /\ UpdateOne(collection, PrimaryFilterKey, hdata[h]["talent_id"],
                     hdata[h]).err = "none"
     \/ /\ hpc[h] = "fbTalentId"
        /\ UpdateOne(collection, "talent_id", hdata[h]["talent_id"],
                     hdata[h]).err = "none"
     \/ /\ hpc[h] = "fbId"
        /\ UpdateOne(collection, "id", hdata[h]["talent_id"], hdata[h]).err = "none"
InvokeSame ==
  \E e \in 0..MaxPage :
     /\ run = 2 => e = endPage
     /\ Invoke(StartPage, e)
RemoteList == ListReturns(PageOf(remote, currentPage))
RemoteDetail ==
  /\ spc = "detail"
  /\ LET a == remote.details[pageData.results[idx]["id"].n]
     IN IF a.present THEN DetailReturns(a.doc) ELSE DetailFails
\* scrapeTalents has returned; the script is about to be run again.
Return ==
  /\ spc = "done"
  /\ run = 1
  /\ spc' = "idle"
  /\ run' = 2
  /\ firstRun' = collection
  /\ UNCHANGED <<remote, currentPage, endPage, totalSaved, totalErrors, pageData, idx,
                 exitReason, storeVars, getVars, viewVars>>

NextRerun ==
  \/ InvokeSame
  \/ RemoteList
  \/ RemoteDetail
  \/ SaveReturns
  \/ ItemDelayEnds
  \/ PageDelayEnds
  \/ Return
  \/ PutStep("h1") /\ ~StoreOutage("h1")

\* Clients of GET /api/talent, one request at a time, over a collection that
\* holds up to MaxItems documents.
NextGet ==
  \/ \E page \in 1..MaxPage, limit \in {1, DefaultLimit},
        search \in Terms \cup {<<>>}, role \in {Absent, Str(1)} :
        Get(page, limit, search, role)
  \/ GetReceive

SpecGet == InitWith(AnyRemote, GetStores) /\ [][NextGet]_vars

\* The viewer, its user and the answers to its requests, which come in any
\* order.
NextView ==
  \/ \E s \in SearchTexts : Type(s)
  \/ Tick
  \/ TimerFires
  \/ \E r \in {""} \cup RoleNames : SelectRole(r)
  \/ PreviousPage
  \/ NextPage
  \/ \E i \in 1..MaxRequests, body \in ResponseBodies : Answered(i, body)
  \/ \E i \in 1..MaxRequests : FetchThrows(i)

SpecView == InitWith(AnyRemote, InitStores) /\ [][NextView]_vars

SpecRerun == (\E r \in Remotes : InitWith(r, InitStores)) /\ [][NextRerun]_vars

\* ----------------------------------------------------------------- claims
\* C1: an item whose detail fetch returns null, or whose save returns false,
\* adds exactly 1 to totalErrors and nothing to totalSaved, and the run goes
\* on: the delay after the item, then the next summary of the page, or, past
\* the last summary, the next page when there is one.
C1_ItemFailed ==
  \/ spc = "detail" /\ spc' # "save" /\ spc' # "detail"
  \/ /\ spc = "save" /\ spc' # "save"
     /\ ~(hpc["h1"] = "done" /\ hresp["h1"].status \in {200, 201}
          /\ totalSaved' = totalSaved + 1)
C1_GoesOn ==
  /\ spc = "itemDelay" /\ spc' # "itemDelay"
  => /\ idx < Len(pageData.results)
        => spc' = "detail" /\ idx' = idx + 1 /\ currentPage' = currentPage
     /\ idx >= Len(pageData.results) /\ pageData.next
        => spc' = "pageDelay" /\ currentPage' = currentPage + 1
C1_PartialFailureAccounting ==
  [][/\ C1_ItemFailed => /\ totalErrors' = totalErrors + 1
                         /\ totalSaved' = totalSaved
                         /\ spc' = "itemDelay"
                         /\ idx' = idx /\ currentPage' = currentPage
     /\ C1_GoesOn
     /\ (spc = "pageDelay" /\ spc' # "pageDelay" /\ currentPage <= endPage)
          => spc' = "list"]_vars
\* One item of page 1 failed, the other was saved, and the list fetch of
\* page 2 is out.
C1_Witness ==
  /\ spc = "list" /\ currentPage = 2
  /\ totalErrors = 1 /\ totalSaved = 1
  /\ Len(pageData.results) = 2

\* C2: once a page with results and without next has come in, its items are
\* processed and the run stops there: the cursor does not move and no list
\* fetch is issued any more, whatever endPage is.
C2_StopsAtLastPage ==
  /\ [][(spc \notin {"idle", "list"} /\ ~NoData(pageData) /\ ~pageData.next)
          => /\ spc' # "list" /\ spc' # "pageDelay"
             /\ currentPage' = currentPage
             /\ pageData' = pageData
             /\ (spc' = "done" /\ spc # "done") => idx = Len(pageData.results)
             /\ (spc = "itemDelay" /\ idx < Len(pageData.results)) => spc' # "done"]_vars
\* The run stopped on page 1 of 2 after both items of the page.
C2_Witness ==
  /\ spc = "done" /\ currentPage = 1 /\ endPage = 2
  /\ ~NoData(pageData) /\ ~pageData.next
  /\ totalSaved + totalErrors = 2

\* C3: a run that is over ended for exactly one of three reasons, each with
\* its facts: the cursor is past endPage; or the cursor is within endPage and
\* the page fetched last had no data; or it had data and no next page.
C3_ExitReasons ==
  /\ spc # "done" => exitReason = "none"
  /\ spc = "done" =>
       /\ exitReason \in {"endPage", "noData", "noNext"}
       /\ exitReason = "endPage" <=> currentPage > endPage
       /\ exitReason = "noData" => NoData(pageData)
       /\ exitReason = "noNext" => ~NoData(pageData) /\ ~pageData.next
       /\ currentPage > endPage => (currentPage = StartPage \/ pageData.next)
\* A run over two pages that ended on a second page without data.
C3_Witness ==
  /\ spc = "done" /\ exitReason = "noData" /\ currentPage = 2
  /\ totalSaved + totalErrors > 0

\* C4: a run that has started is over in the end, whatever the pages hold and
\* whichever requests fail, and it is over by returning, never by throwing.
C4_RunCompletes == (spc # "idle") ~> (spc = "done")
\* A run that is over with two items failed and one saved.
C4_Witness ==
  /\ spc = "done" /\ totalErrors >= 2 /\ totalSaved >= 1

\* The documents of coll that carry talent_id tid.
DocsWith(coll, tid) == {i \in 1..Len(coll) : coll[i]["talent_id"] = tid}

\* Handler h takes a step that leaves program point p.
Leaves(h, p) == hpc[h] = p /\ hpc'[h] # p

\* C5: a save of a payload that was saved before (a document with its
\* talent_id holds the payload's normalized fields already) is answered 200
\* with matched = 1 and upserted = 0 unless the store fails; it adds no
\* document, the talent_id has one document, the same as before, and that
\* document holds every field of the normalized payload. The first save of a
\* talent adds one document, which is the normalized payload with the _id of
\* the payload or else of the store.
C5_SavedBefore(h) ==
  \E i \in DocsWith(collection, hdata[h]["talent_id"]) :
     \A k \in Fields \ {"updatedAt"} :
        hdata[h][k] # Absent => collection[i][k] = hdata[h][k]
C5_IdempotentUpsert ==
  [][\A h \in Handlers :
       /\ (Leaves(h, "primary") /\ C5_SavedBefore(h)) =>
            \/ /\ hpc'[h] = "done" /\ hresp'[h].status = 500
               /\ collection' = collection
            \/ /\ hpc'[h] = "done" /\ hresp'[h].status = 200
               /\ hresp'[h].matched = 1 /\ hresp'[h].upserted = 0
               /\ Len(collection') = Len(collection)
               /\ Cardinality(DocsWith(collection', hdata[h]["talent_id"])) = 1
               /\ DocsWith(collection', hdata[h]["talent_id"])
                    = DocsWith(collection, hdata[h]["talent_id"])
               /\ \A i \in DocsWith(collection', hdata[h]["talent_id"]) :
                     \A k \in Fields :
                        hdata[h][k] # Absent => collection'[i][k] = hdata[h][k]
       /\ (Leaves(h, "insert") /\ hresp'[h].status = 200) =>
            /\ hresp'[h].matched = 0 /\ hresp'[h].upserted = 1
            /\ Len(collection') = Len(collection) + 1
            /\ SubSeq(collection', 1, Len(collection)) = collection
            /\ \A k \in Fields :
                  (k # "_id" \/ hdata[h][k] # Absent)
                     => collection'[Len(collection')][k] = hdata[h][k]
            /\ Cardinality(DocsWith(collection', hdata[h]["talent_id"])) = 1]_vars
\* A save that matched one document and modified nothing: the stored document
\* was the normalized payload already, updatedAt included.
C5_Witness ==
  \E h \in Handlers :
     /\ hpc[h] = "done" /\ hresp[h].status = 200
     /\ hresp[h].matched = 1 /\ hresp[h].modified = 0 /\ hresp[h].upserted = 0
     /\ Cardinality(DocsWith(collection, TalentIdOf(hbody[h]))) = 1

\* C6: a payload whose id is missing, null, zero (0 or "0") or a text that is
\* no number is answered 400, and no updateOne is issued for it.
C6_UnusableId(body) ==
  /\ body.kind = "obj"
  /\ \/ body.doc["id"] \in {Absent, Null, Num(0), NumStr(0)}
     \/ body.doc["id"].t = "str"
C6_InvalidIdRejected ==
  /\ \A h \in Handlers :
       (hpc[h] \notin {"idle", "recv"} /\ C6_UnusableId(hbody[h])) =>
          /\ hpc[h] = "done"
          /\ hresp[h].status = 400
          /\ hops[h] = <<>>
\* The payload {id: "abc"} was answered 400.
C6_Witness ==
  \E h \in Handlers :
     /\ hpc[h] = "done" /\ hbody[h].kind = "obj" /\ hbody[h].doc["id"] = Str(1)
     /\ hresp[h].status = 400 /\ hops[h] = <<>>

C8_OpOrders ==
  {<<>>, <<"upsert">>, <<"upsert", "updateByTalentId">>,
   <<"upsert", "updateByTalentId", "updateById">>}
C8_FallbackOrder ==
  /\ [](\A h \in Handlers : hops[h] \in C8_OpOrders)
  /\ [][\A h \in Handlers :
          /\ (hpc'[h] = "fbTalentId" /\ hpc[h] # "fbTalentId")
                => hpc[h] \in {"primary", "insert"}
          /\ Leaves(h, "fbTalentId") =>
                /\ Len(collection') = Len(collection)
                /\ hpc'[h] \in {"fbId", "done"}
                /\ hpc'[h] = "fbId" =>
                     /\ DocsWith(collection, hdata[h]["talent_id"]) = {}
                     /\ collection' = collection
                /\ DocsWith(collection, hdata[h]["talent_id"]) # {} => hpc'[h] = "done"
          /\ Leaves(h, "fbId") =>
                /\ Len(collection') = Len(collection)
                /\ hpc'[h] = "done"]_vars
\* A request whose upsert hit the unique index on id, whose update by
\* talent_id matched nothing and whose update by id matched the old document.
C8_Witness ==
  \E h \in Handlers :
     /\ hpc[h] = "done" /\ hresp[h].status = 200 /\ hresp[h].matched = 1
     /\ hops[h] = <<"upsert", "updateByTalentId", "updateById">>

\* C9: a request whose upsert raised the duplicate key error, and whose
\* fallback updated no document (neither update matched, or one threw), is
\* answered 500, never 200: a fallback answered 200 has matched a document
\* and the talent has its document; and a save answered 500 adds 1 to
\* totalErrors and nothing to totalSaved.
C9_FailedFallbackIsAnError ==
  /\ [](\A h \in Handlers :
          (Len(hops[h]) >= 2 /\ hpc[h] = "done") =>
             /\ hresp[h].status \in {200, 500}
             /\ hresp[h].status = 200 <=> hresp[h].matched = 1
             /\ hresp[h].status = 200 =>
                   DocsWith(collection, TalentIdOf(hbody[h])) # {})
  /\ [][(spc = "save" /\ spc' # "save" /\ hpc["h1"] = "done"
           /\ hresp["h1"].status = 500)
          => totalErrors' = totalErrors + 1 /\ totalSaved' = totalSaved]_vars
\* The upsert of talent 2 hit the unique index, neither fallback update
\* matched a document, no document carries talent_id 2, and the answer is 200.
C9_Witness ==
  \E h \in Handlers :
     /\ hpc[h] = "done" /\ TalentIdOf(hbody[h]) = Num(2)
     /\ hops[h] = <<"upsert", "updateByTalentId", "updateById">>
     /\ hresp[h].status = 200 /\ hresp[h].matched = 0
     /\ DocsWith(collection, Num(2)) = {}

\* C10: an update of an existing document gives every key of the normalized
\* payload the payload's value and leaves every other field as it was.
C10_SetSemantics ==
  [][\A h \in Handlers : \A i \in 1..Len(collection) :
       (hpc'[h] # hpc[h] /\ collection'[i] # collection[i]) =>
          \A k \in Fields :
             collection'[i][k] =
                IF k \in Keys(hdata[h]) THEN hdata[h][k] ELSE collection[i][k]]_vars
\* The payload {id: 1, name: null, title} updated the document saved earlier:
\* the title is the payload's, the name is the one the document had.
C10_Witness ==
  \E h \in Handlers : \E i \in 1..Len(collection) :
     /\ hpc[h] = "done" /\ hresp[h].status = 200 /\ hresp[h].matched = 1
     /\ hbody[h].doc["name"] = Null /\ hbody[h].doc["title"] = Str(2)
     /\ collection[i]["talent_id"] = TalentIdOf(hbody[h])
     /\ collection[i]["name"] = Str(3)
     /\ collection[i]["title"] = Str(2)

\* Handler h takes a step that writes document i: it inserts it or changes it.
Writes(h, i) ==
  /\ hpc'[h] # hpc[h]
  /\ i \in 1..Len(collection')
  /\ (i > Len(collection) \/ collection'[i] # collection[i])

C12_IntegerIdentity ==
  [][\A h \in Handlers : \A i \in 1..Len(collection') :
       Writes(h, i) =>
          /\ collection'[i]["talent_id"] = collection'[i]["id"]
          /\ collection'[i]["talent_id"] = ToNumber(hbody[h].doc["id"])
          /\ collection'[i]["talent_id"].t = "int"]_vars
\* The payload {id: 1.5} was answered 200 and its document carries
\* talent_id 1.5.
C12_Witness ==
  \E h \in Handlers : \E i \in 1..Len(collection) :
     /\ hpc[h] = "done" /\ hresp[h].status = 200
     /\ hbody[h].doc["id"] = Frac(1)
     /\ collection[i]["talent_id"] = Frac(1) /\ collection[i]["id"] = Frac(1)

\* C13: the record sent to the store carries, for each of search_score,
\* matching_skills_percent and personal_rank, what the summary has for the key
\* (nothing when the summary lacks it), whatever the detail has there; every
\* other key, id included, is the detail's, with the detail's value.
C13_MergedRecord ==
  [][(spc = "detail" /\ spc' = "save") =>
        /\ hbody'["h1"].kind = "obj"
        /\ \E d \in Details : \A k \in Fields :
              hbody'["h1"].doc[k] =
                 IF k \in SummaryFields THEN pageData.results[idx][k] ELSE d[k]]_vars
\* The record of a detail with search_score 7 under a summary with
\* search_score 9 is on its way to the store with search_score 9 and the
\* detail's name and title.
C13_Witness ==
  /\ spc = "save" /\ hpc["h1"] = "recv"
  /\ pageData.results[idx]["search_score"] = Num(9)
  /\ hbody["h1"].doc["search_score"] = Num(9)
  /\ hbody["h1"].doc["name"] = Str(1) /\ hbody["h1"].doc["title"] = Str(2)

\* C14: the run has one request out at a time: the store works on a PUT only
\* while the run awaits that save, a detail fetch goes out only for the first
\* summary of a page just fetched or for the summary after the one whose
\* delay ended, the save of a summary follows its own detail fetch, and a list
\* fetch goes out only at the start or after the page delay, each with no PUT
\* in flight.
C14_Sequential ==
  /\ [](hpc["h1"] # "idle" => spc = "save")
  /\ [][/\ (spc' = "detail" /\ spc # "detail") =>
            /\ hpc["h1"] = "idle"
            /\ \/ spc = "list" /\ idx' = 1
               \/ spc = "itemDelay" /\ idx' = idx + 1 /\ pageData' = pageData
        /\ (spc' = "save" /\ spc # "save") =>
            /\ spc = "detail"
            /\ idx' = idx /\ pageData' = pageData
        /\ (spc' = "list" /\ spc # "list") =>
            /\ spc \in {"idle", "pageDelay"}
            /\ hpc["h1"] = "idle"
        /\ spc \in {"detail", "save"} =>
            /\ idx' = idx
            /\ pageData' = pageData]_vars
\* The detail fetch of the second summary is out, the first summary was
\* saved and its PUT is over.
C14_Witness ==
  /\ spc = "detail" /\ idx = 2 /\ totalSaved = 1 /\ hpc["h1"] = "idle"

\* C15: a summary that is done with, saved or not, is followed by the item
\* delay and by nothing else; a detail fetch other than the first of a page
\* goes out only when an item delay ends, the first of a page only after the
\* list fetch; a move of the page cursor is followed by the page delay, and
\* a list fetch other than the first goes out only when a page delay ends.
C15_Delays ==
  [][/\ (spc \in {"detail", "save"} /\ spc' \notin {"detail", "save"}) =>
          spc' = "itemDelay"
     /\ (spc = "detail" /\ spc' # "detail") =>
          spc' \in {"save", "itemDelay"}
     /\ (spc' = "detail" /\ spc # "detail") =>
          /\ spc \in {"list", "itemDelay"}
          /\ idx' > 1 => spc = "itemDelay"
     /\ (spc # "idle" /\ currentPage' # currentPage) =>
          spc' = "pageDelay"
     /\ (spc' = "list" /\ spc \notin {"list", "idle"}) =>
          spc = "pageDelay"]_vars
\* The page delay before the list fetch of page 2, after a page on which a
\* summary failed and a summary was saved.
C15_Witness ==
  /\ spc = "pageDelay" /\ currentPage = 2
  /\ totalErrors >= 1 /\ totalSaved >= 1

\* C16: a list fetch that returns null ends the run there, for the reason a
\* page without data ends it, with both counters as they were and no request
\* to the store; a run that is over issues nothing more and keeps its
\* counters.
C16_FailedListFetch ==
  [][/\ (spc = "list" /\ spc' # "list" /\ ~pageData'.present) =>
          /\ spc' = "done" /\ exitReason' = "noData"
          /\ totalSaved' = totalSaved /\ totalErrors' = totalErrors
          /\ currentPage' = currentPage
          /\ hpc' = hpc /\ collection' = collection
     /\ (spc = "list" /\ spc' # "list" /\ pageData'.present /\ NoData(pageData')) =>
          /\ spc' = "done" /\ exitReason' = "noData"
          /\ totalSaved' = totalSaved /\ totalErrors' = totalErrors
     /\ spc = "done" =>
          /\ spc' = "done"
          /\ totalSaved' = totalSaved /\ totalErrors' = totalErrors
          /\ hpc' = hpc /\ collection' = collection]_vars
\* The list fetch of page 2 failed: the run is over with the counters of
\* page 1.
C16_Witness ==
  /\ spc = "done" /\ ~pageData.present /\ currentPage = 2
  /\ totalSaved >= 1 /\ totalErrors >= 1

\* C17: the cursor of a run starts at START_PAGE and moves by steps of +1
\* only; a list fetch is out only for a page from START_PAGE to endPage,
\* endPage included; it goes out at the start, or after a page delay that
\* followed a move of the cursor, so each page is fetched once at most and in
\* order; after the page delay the page is fetched whenever it is within
\* endPage; a run with START_PAGE > endPage is over at once, with 0 and 0 and
\* no request.
C17_PageCursor ==
  /\ [](spc = "list" => (StartPage <= currentPage /\ currentPage <= endPage))
  /\ [](spc # "idle" => currentPage >= StartPage)
  /\ [][/\ (spc = "idle" /\ spc' # "idle") =>
             /\ currentPage' = StartPage
             /\ spc' = IF StartPage <= endPage' THEN "list" ELSE "done"
             /\ totalSaved' = 0 /\ totalErrors' = 0
             /\ hpc' = hpc /\ pageData' = pageData
        /\ spc # "idle" =>
             /\ currentPage' \in {currentPage, currentPage + 1}
             /\ endPage' = endPage
        /\ (spc' = "list" /\ spc \notin {"list", "idle"}) =>
             /\ spc = "pageDelay"
             /\ currentPage' = currentPage
        /\ (spc' = "pageDelay" /\ spc # "pageDelay") <=>
             (spc # "idle" /\ currentPage' = currentPage + 1)
        /\ (spc = "pageDelay" /\ spc' # "pageDelay") =>
             spc' = IF currentPage <= endPage THEN "list" ELSE "done"]_vars
\* A run with endPage below START_PAGE: over with 0 and 0, no page fetched.
C17_Witness ==
  /\ spc = "done" /\ endPage < StartPage /\ exitReason = "endPage"
  /\ totalSaved = 0 /\ totalErrors = 0 /\ pageData = NoPage

\* C18: a detail fetch goes out once for each summary of a fetched page, in
\* its turn; a PUT is sent only as the save of the summary whose detail has
\* just come in, and once; a detail fetch that returned null sends nothing
\* to the store; a save that is over, however it ended, leads to the item
\* delay and a list fetch without data to the end of the run: no request is
\* issued a second time.
C18_NoRetry ==
  [][/\ (spc' = "detail" /\ spc # "detail") =>
          \/ spc = "list" /\ idx' = 1
          \/ spc = "itemDelay" /\ idx' = idx + 1 /\ pageData' = pageData
     /\ (hpc["h1"] # "recv" /\ hpc'["h1"] = "recv") =>
          /\ spc = "detail" /\ spc' = "save"
          /\ hpc["h1"] = "idle"
     /\ (spc = "detail" /\ spc' \notin {"detail", "save"}) =>
          /\ spc' = "itemDelay"
          /\ hpc' = hpc /\ idx' = idx
     /\ (spc = "save" /\ spc' # "save") =>
          /\ spc' = "itemDelay"
          /\ idx' = idx
          /\ hpc'["h1"] = "idle"
     /\ (spc = "list" /\ spc' # "list" /\ NoData(pageData')) =>
          spc' = "done"
     /\ (spc = "itemDelay" /\ spc' # "itemDelay") =>
          /\ spc' \in {"detail", "pageDelay", "done"}
          /\ spc' = "detail" <=> idx < Len(pageData.results)]_vars
\* The detail fetch of the second summary is out after the first summary
\* failed: nothing was saved, one error is counted.
C18_Witness ==
  /\ spc = "detail" /\ idx = 2 /\ totalSaved = 0 /\ totalErrors = 1
  /\ hpc["h1"] = "idle"

\* C19: the second run over the same page range, against the same remote
\* data, leaves the collection as the first run left it: the same documents
\* in the same places with the same values of every field but updatedAt, no
\* document more, and one document for each talent_id.
SameButUpdatedAt(a, b) ==
  /\ Len(a) = Len(b)
  /\ \A i \in 1..Len(a) : \A k \in Fields \ {"updatedAt"} : a[i][k] = b[i][k]
Contains(s, t) ==
  \E j \in 0..(Len(t) - Len(s)) : \A i \in 1..Len(s) : Lower(t[j + i]) = Lower(s[i])
HoldsTerm(doc, s) ==
  \E f \in SearchFields : doc[f].t = "text" /\ Contains(s, doc[f].n)
C20_SearchIsSubstring ==
  (gpc = "done" /\ greq.search # <<>>) =>
     \A i \in 1..Len(gresp.talents) : HoldsTerm(gresp.talents[i], greq.search)
\* The search for "." is answered with a document that has no "." in any of
\* its fields.
C20_Witness ==
  /\ gpc = "done" /\ gresp.status = 200
  /\ greq.search = <<".">>
  /\ \E i \in 1..Len(gresp.talents) : ~HoldsTerm(gresp.talents[i], <<".">>)

\* C22: the two counters count the summaries that are done. The step that
\* finishes a summary (its detail fetch returned null, or its save is over)
\* adds 1 to exactly one counter: to totalSaved only when the route answered
\* the save with 200 or 201, and always when that answer has come in; every
\* other step leaves both as they are, but
\* the call, which sets them to 0. On the first page their sum is the number
\* of summaries done so far.
C22_Finishes ==
  /\ spc \in {"detail", "save"}
  /\ spc' = "itemDelay"
C22_Answered200 ==
  /\ spc = "save"
  /\ hpc["h1"] = "done"
  /\ hresp["h1"].status \in {200, 201}
C22_CountersCountSummaries ==
  /\ [](/\ totalSaved >= 0 /\ totalErrors >= 0
        /\ (currentPage = StartPage /\ spc \in {"detail", "save"})
             => totalSaved + totalErrors = idx - 1
        /\ (currentPage = StartPage /\ spc = "itemDelay")
             => totalSaved + totalErrors = idx)
  /\ [][/\ C22_Finishes =>
             /\ totalSaved' + totalErrors' = totalSaved + totalErrors + 1
             /\ totalSaved' >= totalSaved /\ totalErrors' >= totalErrors
             /\ totalSaved' = totalSaved + 1 => C22_Answered200
             /\ (SaveReturns /\ C22_Answered200) => totalSaved' = totalSaved + 1
        /\ (~C22_Finishes /\ spc # "idle") =>
             /\ totalSaved' = totalSaved
             /\ totalErrors' = totalErrors
        /\ spc = "idle" => (totalSaved' = 0 /\ totalErrors' = 0)]_vars
\* The second summary of the first page is done: one was saved, one failed.
C22_Witness ==
  /\ spc = "itemDelay" /\ idx = 2 /\ currentPage = StartPage
  /\ totalSaved = 1 /\ totalErrors = 1

\* C23: a list answer whose results are present and empty sends no detail
\* fetch and no save and leaves both counters as they are; with a next link
\* the cursor moves to the next page and the page delay starts, after which
\* that page is fetched when it is within endPage; without one the run stops
\* with the no-next-page reason.
C23_EmptyPageIn ==
  /\ spc = "list" /\ spc' # "list"
  /\ pageData'.present /\ pageData'.hasResults
  /\ pageData'.results = <<>>
C23_EmptyPage ==
  [][/\ C23_EmptyPageIn =>
          /\ totalSaved' = totalSaved /\ totalErrors' = totalErrors
          /\ hpc' = hpc /\ hbody' = hbody /\ collection' = collection
          /\ spc' \in {"pageDelay", "done"}
          /\ pageData'.next =>
                /\ spc' = "pageDelay"
                /\ currentPage' = currentPage + 1
                /\ exitReason' = exitReason
          /\ ~pageData'.next =>
                /\ spc' = "done"
                /\ exitReason' = "noNext"
                /\ currentPage' = currentPage
     /\ (spc = "pageDelay" /\ spc' # "pageDelay" /\ pageData.results = <<>>) =>
          /\ totalSaved' = totalSaved /\ totalErrors' = totalErrors
          /\ currentPage' = currentPage
          /\ currentPage <= endPage => spc' = "list"
          /\ currentPage > endPage => (spc' = "done" /\ exitReason' = "endPage")]_vars
\* The first page came in with empty results and a next link: nothing was
\* counted, and the list fetch of the second page is out.
C23_Witness ==
  /\ spc = "list" /\ currentPage = StartPage + 1
  /\ pageData.present /\ pageData.hasResults /\ pageData.results = <<>>
  /\ pageData.next
  /\ totalSaved = 0 /\ totalErrors = 0

\* C24: the step in which PUT answers 200 leaves a document in the collection
\* whose talent_id is the coerced id of the payload and which holds every
\* field the payload gave a value other than null; the counts it reports,
\* matched and upserted, are not both zero.
C24_AnswersSuccess(h) == hresp[h].status # 200 /\ hresp'[h].status = 200
C24_SuccessMeansStored ==
  [][\A h \in Handlers :
       C24_AnswersSuccess(h) =>
          /\ hresp'[h].matched + hresp'[h].upserted > 0
          /\ \E i \in 1..Len(collection') :
                /\ collection'[i]["talent_id"] = TalentIdOf(hbody[h])
                /\ \A k \in Fields \ {"id", "talent_id", "updatedAt"} :
                      hbody[h].doc[k].t \notin {"absent", "null", "undef"}
                         => collection'[i][k] = hbody[h].doc[k]]_vars
\* A request is answered 200 by the fallback with matched 0 and upserted 0,
\* and no document of the collection has the payload's talent_id.
C24_Witness ==
  \E h \in Handlers :
     /\ hpc[h] = "done" /\ hresp[h].status = 200 /\ hresp[h].via = "fallback"
     /\ hresp[h].matched + hresp[h].upserted = 0
     /\ \A i \in 1..Len(collection) :
           collection[i]["talent_id"] # TalentIdOf(hbody[h])

\* C25: the record sent for an item carries the id of the detail record that
\* came in, whatever the id of the summary is; every document the save writes
\* has that id, coerced, as talent_id, and an item counted in totalSaved has
\* its document under it; a record whose id is unusable writes nothing, is
\* never counted in totalSaved and adds 1 to totalErrors.
C25_DetailId == ToNumber(hbody["h1"].doc["id"])
C25_Unusable == MissingId(hbody["h1"]) \/ InvalidTalentId(TalentIdOf(hbody["h1"]))
C25_PersistedUnderDetailId ==
  [][/\ (spc = "detail" /\ spc' = "save") =>
          \E d \in Details :
             /\ hbody'["h1"].doc["id"] = d["id"]
             /\ \A k \in Fields \ SummaryFields : hbody'["h1"].doc[k] = d[k]
     /\ \A i \in 1..Len(collection') :
          (spc = "save" /\ Writes("h1", i)) =>
             collection'[i]["talent_id"] = C25_DetailId
     /\ (spc = "save" /\ spc' = "itemDelay" /\ totalSaved' = totalSaved + 1) =>
          /\ ~C25_Unusable
          /\ DocsWith(collection, C25_DetailId) # {}
     /\ (spc = "save" /\ C25_Unusable) =>
          /\ collection' = collection
          /\ totalSaved' = totalSaved
          /\ spc' # "save" => totalErrors' = totalErrors + 1]_vars
\* The first summary, with id 1, is done and counted as saved; the detail that
\* came in for it had id 2, and the collection holds a document for talent 2
\* and none for talent 1.
C25_Witness ==
  /\ spc = "itemDelay" /\ idx = 1 /\ currentPage = StartPage
  /\ pageData.results[idx]["id"] = Num(1)
  /\ totalSaved = 1
  /\ DocsWith(collection, Num(2)) # {} /\ DocsWith(collection, Num(1)) = {}

\* C21: a change of the search box sends no request and leaves the debounced
\* text as it is; the debounced text changes only when the box has stayed
\* unchanged for 500 ms, and then to the text of the box; the request sent
\* on that step, and every request sent, carries the debounced text of the
\* moment.
C21_Debounce ==
  [][/\ searchText' # searchText =>
          /\ requests' = requests
          /\ debouncedSearch' = debouncedSearch
          /\ sinceChange' = 0
     /\ debouncedSearch' # debouncedSearch =>
          /\ sinceChange >= DebounceMs
          /\ searchText' = searchText
          /\ debouncedSearch' = searchText
          /\ Len(requests') = Len(requests) + 1
     /\ Len(requests') > Len(requests) =>
          /\ requests'[Len(requests')].search = debouncedSearch'
          /\ requests'[Len(requests')].status = "out"
          /\ SubSeq(requests', 1, Len(requests)) = requests]_vars
\* "a" was typed and replaced by "ab" before the 500 ms were over; 500 ms
\* after that the second request has gone out, with "ab"; no request carries
\* "a".
C21_Witness ==
  /\ searchText = "ab" /\ debouncedSearch = "ab"
  /\ Len(requests) = 2
  /\ requests[2].search = "ab"
  /\ sinceChange = DebounceMs /\ ~timerSet

\* C26: when no talent request is out and the one issued last was answered,
\* what is displayed is the data of that answer; and the displayed data is
\* never replaced by the data of a request issued earlier.
C26_Settled ==
  /\ \A i \in 1..Len(requests) : requests[i].status # "out"
  /\ requests[Len(requests)].status = "answered"
C26_LatestResponseShown ==
  /\ [](C26_Settled => talents.req = Len(requests))
  /\ [][talents'.req >= talents.req]_vars
\* Two requests were issued and both are answered; the answer to the first
\* came in last and is what is displayed, while page, debounced text and
\* role are those of the second request.
C26_Witness ==
  /\ Len(requests) = 2
  /\ requests[1].status = "answered" /\ requests[2].status = "answered"
  /\ talents.req = 1
  /\ requests[2].page = pageNo /\ requests[2].search = debouncedSearch
  /\ requests[2].role = roleFilter
  /\ requests[1] # requests[2]

====
